---- MODULE Spec2Model ----
(***************************************************************************)
(* A model of calour's heatmap module (src/calour/heatmap/heatmap.py):     *)
(* the transition scanner _transition_index, the controller factory        *)
(* _create_plot_gui, the renderers heatmap and _ax_color_bar, and the      *)
(* entry points plot and plot_sort.                                        *)
(*                                                                         *)
(* Every function of the module is an operator that computes what the      *)
(* Python code computes; a call is one action that stores its arguments in *)
(* `call` and its effects in the other variables.  A matplotlib axes is    *)
(* modelled by the sequence of drawing calls made on it.  Positions along  *)
(* the heatmap's cells are kept in half units (Python's x - 0.5 is 2x - 1  *)
(* here) and positions across a color bar in hundredths (0.3 is 30).  A    *)
(* position of the mouse over the heatmap is kept in quarter units (-0.75  *)
(* is -3).                                                                 *)
(***************************************************************************)
EXTENDS Integers, Sequences, FiniteSets, TLC

VARIABLES
    exp,       \* the caller's Experiment object
    pc,        \* "idle": no call in progress; "done": a call has returned or raised
    call,      \* the last call: its name and its arguments
    records,   \* what list(_transition_index(l)) collected
    error,     \* the exception the call raised ([type |-> ""] when it returned)
    ax,        \* drawing calls on the axes heatmap / _ax_color_bar was given directly
    gui,       \* the controller object built by _create_plot_gui
    log,       \* the messages given to logger.warning
    readout    \* the string the hover callback format_coord returned

vars == <<exp, pc, call, records, error, ax, gui, log, readout>>

(***************************************************************************)
(* Bounds of the model.                                                    *)
(***************************************************************************)
MaxLen == 3        \* longest sequence handed directly to a scanner / color bar
NSamples == 3      \* samples of the experiment
MaxDbs == 2        \* longest explicit list of databases

(***************************************************************************)
(* Python values.  A metadata cell is [tag, val]: tag is the name of its   *)
(* Python type and val the literal of its value (numbers by their numeric  *)
(* value, so that 1, 1.0 and True share val "1" as they compare equal in   *)
(* Python).                                                                *)
(***************************************************************************)
VInt(n)   == [tag |-> "int", val |-> n]
VFloat(n) == [tag |-> "float", val |-> n]
VStr(s)   == [tag |-> "str", val |-> s]
VNone     == [tag |-> "NoneType", val |-> ""]

NumericTags == {"int", "float", "bool"}

\* Python's == on two raw values.
PyEq(a, b) ==
    IF a.tag \in NumericTags /\ b.tag \in NumericTags THEN a.val = b.val
    ELSE a.tag = b.tag /\ a.val = b.val

\* str(type(x))
TypeStr(x) == "<class '" \o x.tag \o "'>"

\* str(x); every float of the model is integral and prints as "1.0"
PyStr(x) ==
    CASE x.tag = "str" -> x.val
      [] x.tag = "int" -> x.val
      [] x.tag = "float" -> x.val \o ".0"
      [] x.tag = "bool" -> (IF x.val = "1" THEN "True" ELSE "False")
      [] OTHER -> "None"

\* An optional or sentinel argument: None, False, a string, an integer, a list.
None     == [k |-> "None"]
False    == [k |-> "False"]
S(s)     == [k |-> "str", v |-> s]
N(n)     == [k |-> "int", v |-> n]
L(items) == [k |-> "list", v |-> items]

\* Only({F(x) : x \in {v}}) is F(v), with v evaluated once
Only(set) == CHOOSE x \in set : TRUE

NoError == [type |-> "", msg |-> ""]
Raise(t, m) == [type |-> t, msg |-> m]

(***************************************************************************)
(* _transition_index                                                       *)
(***************************************************************************)
\* heatmap.py:48,50  the pair (str(type(x)), x)
Tagged(x) == <<TypeStr(x), x>>

ItemNeqUntyped(item, current) == ~PyEq(item[2], current[2])

\* heatmap.py:51  item != current, on two (type string, value) tuples
ItemNeq(item, current) ==
    item[1] # current[1] \/ ~PyEq(item[2], current[2])

LastRecordOffByOne(i, item) == <<i, item[2]>>

\* heatmap.py:54  yield i + 1, item[1]
LastRecord(i, item) == <<i + 1, item[2]>>

\* heatmap.py:49-54  the loop over the rest of enumerate(l); i is the last
\* index taken from the enumeration (0-based), item the current run's pair
RECURSIVE ScanLoop(_, _, _, _)
ScanLoop(l, i, item, out) ==
    IF i + 1 >= Len(l)
    THEN Append(out, LastRecord(i, item))
    ELSE LET current == Tagged(l[i + 2])
         IN IF ItemNeq(item, current)
            THEN ScanLoop(l, i + 1, current, Append(out, <<i + 1, item[2]>>))
            ELSE ScanLoop(l, i + 1, item, out)

TransitionIndexEmptyOk(l) ==
    IF Len(l) = 0
    THEN [error |-> NoError, records |-> <<>>]
    ELSE [error |-> NoError, records |-> ScanLoop(l, 0, Tagged(l[1]), <<>>)]

\* heatmap.py:46-54  list(_transition_index(l)).  On an empty l, next(it)
\* raises StopIteration inside the generator body, which the interpreter
\* turns into RuntimeError (PEP 479) before any record is yielded.
TransitionIndex(l) ==
    IF Len(l) = 0
    THEN [error |-> Raise("RuntimeError", "generator raised StopIteration"),
          records |-> <<>>]
    ELSE [error |-> NoError, records |-> ScanLoop(l, 0, Tagged(l[1]), <<>>)]

(***************************************************************************)
(* The Experiment object and the collaborators the module calls.  A        *)
(* metadata table maps a column name to the column's cells, in the         *)
(* experiment's current order.                                             *)
(***************************************************************************)
\* strings in the order Python sorts them (np.unique, sort_values)
StringOrder == <<"", "1", "2", "a", "ab", "b", "c", "x">>

StrRank(s) == CHOOSE r \in 1..Len(StringOrder) : StringOrder[r] = s

\* sort key of a cell: numbers by value, strings in string order, None last
CellRank(v) ==
    CASE v.tag = "NoneType" -> Len(StringOrder) + 1
      [] OTHER -> StrRank(v.val)

\* the stable ascending order of 1..n by key: index i comes after the indices
\* of smaller keys and after the earlier indices of equal keys
StableOrder(key, n) ==
    LET before(i) == {k \in 1..n : key[k] < key[i] \/ (key[k] = key[i] /\ k < i)}
    IN [j \in 1..n |-> CHOOSE i \in 1..n : Cardinality(before(i)) = j - 1]

Permute(col, order) == [j \in 1..Len(order) |-> col[order[j]]]

\* Experiment.sort_samples(field, inplace=True): a stable sort of the samples
SortSamples(e, field) ==
    LET col == e.sample_metadata[field]
        key == [j \in 1..Len(col) |-> CellRank(col[j])]
        order == StableOrder(key, Len(col))
    IN [e EXCEPT !.sample_metadata =
            [f \in DOMAIN e.sample_metadata |-> Permute(e.sample_metadata[f], order)],
        !.data = Permute(e.data, order)]

\* Experiment.copy(): a new object holding equal tables
Copy(e) == e

\* Experiment.shape: (samples, features)
Shape(e) == <<Len(e.data), Len(e.data[1])>>

\* calour.util._to_list: a single name becomes a one-element list
ToList(x) == IF x.k = "list" THEN x.v ELSE <<x.v>>

\* repr() of a string or None argument, as '%r' prints it
Repr(x) == IF x.k = "None" THEN "None" ELSE "'" \o x.v \o "'"

\* calour.database._get_database_class(name, exp=exp): the handle of database
\* `name`, with the capability its class advertises
DbAnnotatable == [dbbact |-> TRUE, spongeworld |-> TRUE, redbiom |-> FALSE]

GetDatabaseClass(name) == [database_name |-> name, annotatable |-> DbAnnotatable[name]]

\* PlotGUI.__init__(exp): a controller with its three axes created, no
\* database attached and no annotation database (<<>> is None)
NewGui(cls) ==
    [constructed |-> TRUE, cls |-> cls, databases |-> <<>>, annotation_db |-> <<>>,
     axes |-> <<>>, xax |-> <<>>, yax |-> <<>>, activated |-> FALSE]

\* no controller object exists
NoGui ==
    [constructed |-> FALSE, cls |-> "", databases |-> <<>>, annotation_db |-> <<>>,
     axes |-> <<>>, xax |-> <<>>, yax |-> <<>>, activated |-> FALSE]

(***************************************************************************)
(* _create_plot_gui                                                        *)
(***************************************************************************)
\* heatmap.py:82  possible_gui, in the order of its keys
PossibleGuiKeys == <<"qt5", "cli", "jupyter">>
PossibleGui == [qt5 |-> "PlotGUI_QT5", cli |-> "PlotGUI_CLI", jupyter |-> "PlotGUI_Jupyter"]

\* heatmap.py:83  gui in possible_gui
GuiKnown(g) == g.k = "str" /\ g.v \in DOMAIN PossibleGui

\* heatmap.py:86  the message of the ValueError
UnknownGuiMsg(g) ==
    "Unknown GUI specified: " \o Repr(g)
        \o ". Possible values are: ['qt5', 'cli', 'jupyter']"

AttachLastWins(g, cdb) ==
    [g EXCEPT !.databases = Append(@, cdb),
              !.annotation_db = IF cdb.annotatable THEN <<cdb>> ELSE @]

\* heatmap.py:94-99  one database attached to the controller
Attach(g, cdb) ==
    [g EXCEPT !.databases = Append(@, cdb),
              !.annotation_db = IF cdb.annotatable /\ @ = <<>> THEN <<cdb>> ELSE @]

\* heatmap.py:97-104  the warning of a second annotation-capable database
AttachWarning(g, cdb) ==
    IF cdb.annotatable /\ g.annotation_db # <<>>
    THEN << "More than one database with annotation capability."
            \o "Using first database (" \o g.annotation_db[1].database_name
            \o ") for annotation." >>
    ELSE <<>>

\* heatmap.py:93-104  for cdatabase in databases
RECURSIVE AttachLoop(_, _, _, _)
AttachLoop(g, names, k, warned) ==
    IF k > Len(names) THEN [gui |-> g, log |-> warned]
    ELSE LET cdb == GetDatabaseClass(names[k])
         IN AttachLoop(Attach(g, cdb), names, k + 1, warned \o AttachWarning(g, cdb))

\* heatmap.py:87-105  the controller of class cls built and linked with the
\* databases requested
BuildGui(cls, databases) ==
    LET gui_obj == NewGui(cls)
    IN IF databases.k # "list"
       THEN \* for cdatabase in None (or in False)
            [error |-> Raise("TypeError",
                             IF databases.k = "None"
                             THEN "'NoneType' object is not iterable"
                             ELSE "'bool' object is not iterable"),
             gui |-> gui_obj, log |-> <<>>]
       ELSE LET r == AttachLoop(gui_obj, databases.v, 1, <<>>)
            IN [error |-> NoError, gui |-> r.gui, log |-> r.log]

CreatePlotGuiFallback(e, g, databases) ==
    IF GuiKnown(g) THEN BuildGui(PossibleGui[g.v], databases)
    ELSE BuildGui(PossibleGui["cli"], databases)

\* heatmap.py:57-105  _create_plot_gui(exp, gui, databases)
CreatePlotGui(e, g, databases) ==
    IF GuiKnown(g)
    THEN BuildGui(PossibleGui[g.v], databases)
    ELSE [error |-> Raise("ValueError", UnknownGuiMsg(g)), gui |-> NoGui, log |-> <<>>]

(***************************************************************************)
(* heatmap                                                                 *)
(***************************************************************************)
\* heatmap.py:108-111  the defaults of heatmap's keyword arguments
XTickLabelRot == 45
XTickLabelLen == 10
YTickLabelLen == 15
YTickLabelsMax == 100

HeatmapDefaults ==
    [sample_field |-> None, feature_field |-> False,
     yticklabels_max |-> N(YTickLabelsMax), xticklabel_len |-> N(XTickLabelLen),
     yticklabel_len |-> N(YTickLabelLen), rect |-> None, transform |-> S("log_n")]

\* s[-n:]
LastChars(s, n) ==
    IF n = 0 \/ n >= Len(s) THEN s ELSE SubSeq(s, Len(s) - n + 1, Len(s))

\* s[:n]
FirstChars(s, n) == IF n >= Len(s) THEN s ELSE SubSeq(s, 1, n)

\* heatmap.py:206-210  a long x tick label keeps its two ends
ShortenX(s, xticklabel_len) ==
    IF xticklabel_len.k = "None" THEN s
    ELSE LET mid == xticklabel_len.v \div 2
         IN IF Len(s) > xticklabel_len.v
            THEN FirstChars(s, mid) \o ".." \o LastChars(s, mid)
            ELSE s

\* heatmap.py:224-226  a long y tick label keeps its end
ShortenY(s, yticklabel_len) ==
    IF yticklabel_len.k = "None" THEN s
    ELSE IF Len(s) > yticklabel_len.v THEN LastChars(s, yticklabel_len.v) ELSE s

\* heatmap.py:228-232  format_fn(tick_val, tick_pos), for an integral tick_val
FormatFn(yticklabels, numcols, tick_val) ==
    IF 0 <= tick_val /\ tick_val < numcols THEN yticklabels[tick_val + 1] ELSE ""

\* heatmap.py:197-199  x_pos = [0.] + list(x_pos) - 0.5, in half units
XPos2(recs) == [j \in 1..(Len(recs) + 1) |-> IF j = 1 THEN -1 ELSE 2 * recs[j - 1][1] - 1]

\* heatmap.py:200-201  a white vertical line at each of x_pos[1:-1]
VLines(recs) ==
    LET x_pos2 == XPos2(recs)
    IN [j \in 1..(Len(recs) - 1) |-> [op |-> "axvline", x2 |-> x_pos2[j + 1]]]

\* heatmap.py:203  x_pos[:-1] + (x_pos[1:] - x_pos[:-1]) / 2, in half units
XTicks2(recs) ==
    LET x_pos2 == XPos2(recs)
    IN [j \in 1..Len(recs) |-> (x_pos2[j] + x_pos2[j + 1]) \div 2]

\* heatmap.py:195-211  the label, the lines between the sample groups and a
\* tick in the middle of each group
XAxisDraw(a, sample_field, column, xticklabel_len) ==
    LET a1 == Append(a, [op |-> "set_xlabel", label |-> sample_field.v])
        xticks == TransitionIndex(column)
    IN IF xticks.error.type # ""
       THEN [error |-> xticks.error, ax |-> a1]
       ELSE LET recs == xticks.records
                xticklabels == [j \in 1..Len(recs) |->
                                   ShortenX(PyStr(recs[j][2]), xticklabel_len)]
            IN [error |-> NoError,
                ax |-> a1 \o VLines(recs)
                       \o << [op |-> "set_xticks", ticks2 |-> XTicks2(recs)],
                             [op |-> "set_xticklabels", labels |-> xticklabels,
                              rotation |-> XTickLabelRot] >>]

\* heatmap.py:194  the error for a sample field the metadata does not have
SampleFieldError(sample_field) ==
    Raise("ValueError", "Sample field " \o Repr(sample_field) \o " not in sample metadata")

HeatmapXAxisLabelFirst(e, a, sample_field, xticklabel_len) ==
    IF sample_field.k = "None"
    THEN [error |-> NoError, ax |-> Append(a, [op |-> "xaxis_set_visible", visible |-> FALSE])]
    ELSE IF sample_field.v \notin DOMAIN e.sample_metadata
    THEN [error |-> SampleFieldError(sample_field),
          ax |-> Append(a, [op |-> "set_xlabel", label |-> sample_field.v])]
    ELSE XAxisDraw(a, sample_field, e.sample_metadata[sample_field.v], xticklabel_len)

\* heatmap.py:190-213  the x axis of the heatmap
HeatmapXAxis(e, a, sample_field, xticklabel_len) ==
    IF sample_field.k = "None"
    THEN [error |-> NoError, ax |-> Append(a, [op |-> "xaxis_set_visible", visible |-> FALSE])]
    ELSE IF sample_field.v \notin DOMAIN e.sample_metadata
    THEN [error |-> SampleFieldError(sample_field), ax |-> a]
    ELSE XAxisDraw(a, sample_field, e.sample_metadata[sample_field.v], xticklabel_len)

YTicksNoneAsZero(yticklabels_max, numcols, yticklabels) ==
    IF yticklabels_max.k = "None" \/ yticklabels_max.v = 0
    THEN << [op |-> "set_yticks", ticks |-> <<>>] >>
    ELSE << [op |-> "set_major_formatter", formatter |-> "format_fn"],
            [op |-> "set_major_locator", locator |-> "MaxNLocator",
             nbins |-> yticklabels_max.v, integer |-> TRUE] >>

\* heatmap.py:233-243  the y ticks for yticklabels_max
YTicks(yticklabels_max, numcols, yticklabels) ==
    IF yticklabels_max.k = "None"
    THEN << [op |-> "set_yticks", ticks |-> [j \in 1..numcols |-> j - 1]],
            [op |-> "set_yticklabels", labels |-> yticklabels] >>
    ELSE IF yticklabels_max.v = 0
    THEN << [op |-> "set_yticks", ticks |-> <<>>] >>
    ELSE IF yticklabels_max.v > 0
    THEN << [op |-> "set_major_formatter", formatter |-> "format_fn"],
            [op |-> "set_major_locator", locator |-> "MaxNLocator",
             nbins |-> yticklabels_max.v, integer |-> TRUE] >>
    ELSE <<>>

\* heatmap.py:222-226  the y tick labels, one per feature
YTickLabels(ffield, yticklabel_len) ==
    [j \in 1..Len(ffield) |-> ShortenY(PyStr(ffield[j]), yticklabel_len)]

\* heatmap.py:216-245  the y axis of the heatmap
HeatmapYAxis(e, a, feature_field, yticklabels_max, yticklabel_len) ==
    IF feature_field.k = "None"
    THEN [error |-> NoError, ax |-> Append(a, [op |-> "yaxis_set_visible", visible |-> FALSE])]
    ELSE IF feature_field.v \notin DOMAIN e.feature_metadata
    THEN [error |-> Raise("ValueError",
                          "Feature field " \o Repr(feature_field) \o " not in feature metadata"),
          ax |-> a]
    ELSE LET ffield == e.feature_metadata[feature_field.v]
             numcols == Shape(e)[2]
         IN [error |-> NoError,
             ax |-> Append(a, [op |-> "set_ylabel", label |-> feature_field.v])
                    \o YTicks(yticklabels_max, numcols, YTickLabels(ffield, yticklabel_len))]

\* heatmap.py:183-187  the image and the initial zoom window
HeatmapImage(a, kw) ==
    Append(a, [op |-> "imshow", transformed |-> kw.transform.k # "None"])
        \o (IF kw.rect.k = "None" THEN <<>>
            ELSE << [op |-> "set_xlim", lim |-> <<kw.rect.v[1], kw.rect.v[2]>>],
                    [op |-> "set_ylim", lim |-> <<kw.rect.v[3], kw.rect.v[4]>>] >>)

\* the decimal digits of a natural number
RECURSIVE Digits(_)
Digits(n) ==
    LET d == <<"0", "1", "2", "3", "4", "5", "6", "7", "8", "9">>[(n % 10) + 1]
    IN IF n < 10 THEN d ELSE Digits(n \div 10) \o d

\* '%1.2f' % q for a position q given in quarter units
Fmt2(q4) ==
    LET m == IF q4 < 0 THEN -q4 ELSE q4
    IN (IF q4 < 0 THEN "-" ELSE "") \o Digits(m \div 4) \o "."
       \o <<"00", "25", "50", "75">>[(m % 4) + 1]

\* heatmap.py:249-250  int(q + 0.5) for q in quarter units: int() drops the
\* fraction, towards zero
IntOfPlusHalf(q4) ==
    LET n == q4 + 2
    IN IF n >= 0 THEN n \div 4 ELSE -((-n) \div 4)

\* heatmap.py:248-255  format_coord(x, y), the closure over exp, numrows and
\* numcols that heatmap installs on the axes
FormatCoord(e, x4, y4) ==
    LET numrows == Shape(e)[1]
        numcols == Shape(e)[2]
        row == IntOfPlusHalf(x4)
        col == IntOfPlusHalf(y4)
    IN IF 0 <= col /\ col < numcols /\ 0 <= row /\ row < numrows
       THEN "x=" \o Fmt2(x4) \o ", y=" \o Fmt2(y4) \o ", z="
            \o Digits(e.data[row + 1][col + 1]) \o ".00"
       ELSE "x=" \o Fmt2(x4) \o ", y=" \o Fmt2(y4)

\* heatmap.py:108-257  heatmap(exp, axes=a, **kw): the drawing calls on the axes
Heatmap(e, a, kw) ==
    LET feature_field == IF kw.feature_field.k = "False"
                         THEN e.heatmap_feature_field ELSE kw.feature_field
        \* heatmap.py:190-213
        x == HeatmapXAxis(e, HeatmapImage(a, kw), kw.sample_field, kw.xticklabel_len)
    IN IF x.error.type # "" THEN x
       ELSE LET y == HeatmapYAxis(e, x.ax, feature_field, kw.yticklabels_max,
                                  kw.yticklabel_len)
            IN IF y.error.type # "" THEN y
               ELSE [error |-> NoError, ax |-> Append(y.ax, [op |-> "format_coord"])]

(***************************************************************************)
(* _ax_color_bar                                                           *)
(***************************************************************************)
\* heatmap.py:288-289  the number of colors of the Dark2 color map
PaletteSize == 8

\* heatmap.py:286-290  col[value]: the values in sorted order take the colors
\* of the palette in turn
ColorOf(values, value) ==
    LET uniques == {values[j].val : j \in 1..Len(values)}
    IN Cardinality({u \in uniques : StrRank(u) < StrRank(value.val)}) % PaletteSize

DrawsAny(value) == TRUE

\* heatmap.py:294  value != ''
Draws(value) == ~PyEq(value, VStr(""))

\* heatmap.py:297-321  the rectangle of the run [prev, i) and its text
Segment(values, prev, i, value, width, position, axis, label) ==
    LET xy == IF axis = 0 THEN <<2 * prev - 1, position>> ELSE <<position, 2 * prev - 1>>
        w == IF axis = 0 THEN 2 * (i - prev) ELSE width
        h == IF axis = 0 THEN width ELSE 2 * (i - prev)
        \* heatmap.py:316-318  rx + width / 2, ry + height / 2
        center == <<xy[1] + w \div 2, xy[2] + h \div 2>>
    IN << [op |-> "add_patch", axis |-> axis, xy |-> xy, w |-> w, h |-> h,
           facecolor |-> ColorOf(values, value), label |-> value.val] >>
       \o (IF label
           THEN << [op |-> "annotate", text |-> value.val, xy |-> center,
                    rotation |-> IF axis = 0 THEN 0 ELSE 90] >>
           ELSE <<>>)

RECURSIVE BarLoopPrevOnDraw(_, _, _, _, _, _, _, _, _)
BarLoopPrevOnDraw(a, values, recs, k, prev, width, position, axis, label) ==
    IF k > Len(recs) THEN a
    ELSE LET i == recs[k][1]
             value == recs[k][2]
         IN IF Draws(value)
            THEN BarLoopPrevOnDraw(
                     a \o Segment(values, prev, i, value, width, position, axis, label),
                     values, recs, k + 1, i, width, position, axis, label)
            ELSE BarLoopPrevOnDraw(a, values, recs, k + 1, prev, width, position, axis,
                                   label)

\* heatmap.py:291-322  the loop over the records of _transition_index(values)
RECURSIVE BarLoop(_, _, _, _, _, _, _, _, _)
BarLoop(a, values, recs, k, prev, width, position, axis, label) ==
    IF k > Len(recs) THEN a
    ELSE LET i == recs[k][1]
             value == recs[k][2]
         IN BarLoop(IF Draws(value)
                    THEN a \o Segment(values, prev, i, value, width, position, axis, label)
                    ELSE a,
                    values, recs, k + 1, i, width, position, axis, label)

\* heatmap.py:260-327  _ax_color_bar(axes, values, width, position, None, axis, label)
AxColorBar(a, values, width, position, axis, label) ==
    LET t == TransitionIndex(values)
    IN IF t.error.type # "" THEN [error |-> t.error, ax |-> a]
       ELSE [error |-> NoError,
             ax |-> BarLoop(a, values, t.records, 1, 0, width, position, axis, label)]

(***************************************************************************)
(* plot                                                                    *)
(***************************************************************************)
\* heatmap.py:410-411  barwidth = 0.3 and barspace = 0.05, in hundredths
BarWidth == 30
BarSpace == 5

\* heatmap.py:418,426  ['' if i is None else str(i) for i in column]
BarValues(column) ==
    [j \in 1..Len(column) |->
        IF column[j].tag = "NoneType" THEN VStr("") ELSE VStr(PyStr(column[j]))]

\* heatmap.py:416-421,425-429  one color bar per column, each beside the last
RECURSIVE BarsLoop(_, _, _, _, _, _, _)
BarsLoop(a, metadata, columns, k, position, axis, label) ==
    IF k > Len(columns) THEN [error |-> NoError, ax |-> a]
    ELSE IF columns[k] \notin DOMAIN metadata
    THEN [error |-> Raise("KeyError", columns[k]), ax |-> a]
    ELSE LET r == AxColorBar(a, BarValues(metadata[columns[k]]), BarWidth, position,
                             axis, label)
         IN IF r.error.type # "" THEN r
            ELSE BarsLoop(r.ax, metadata, columns, k + 1, position + BarSpace + BarWidth,
                          axis, label)

\* heatmap.py:413-429  the color bars of one axis, when asked for
ColorBars(a, metadata, bars, axis, label) ==
    IF bars.k = "None" THEN [error |-> NoError, ax |-> a]
    ELSE BarsLoop(a, metadata, ToList(bars), 1, 0, axis, label)

\* the keyword arguments heatmap sees: its defaults, overridden by kwargs
HeatmapArgs(kwargs) ==
    [key \in DOMAIN HeatmapDefaults |->
        IF key \in DOMAIN kwargs THEN kwargs[key] ELSE HeatmapDefaults[key]]

\* heatmap.py:406-407  the default databases, when asked for by False
ResolveDatabases(e, databases) ==
    IF databases.k = "False" THEN e.heatmap_databases ELSE databases

\* heatmap.py:330-433  plot(exp, sample_color_bars, feature_color_bars, gui,
\* databases, color_bar_label, **kwargs): c is what _create_plot_gui gives,
\* hm the heatmap on the controller's axes, sb and fb the color bars
Plot(e, sample_color_bars, feature_color_bars, g, databases, color_bar_label, kwargs) ==
    Only({
        IF c.error.type # "" THEN c
        ELSE Only({
            IF hm.error.type # ""
            THEN [c EXCEPT !.error = hm.error, !.gui.axes = hm.ax]
            ELSE Only({
                IF sb.error.type # ""
                THEN [c EXCEPT !.error = sb.error, !.gui.axes = hm.ax, !.gui.xax = sb.ax]
                ELSE Only({
                    [c EXCEPT !.error = fb.error, !.gui.axes = hm.ax,
                              !.gui.xax = sb.ax, !.gui.yax = fb.ax,
                              \* heatmap.py:431  gui_obj()
                              !.gui.activated = (fb.error.type = "")]
                    : fb \in {ColorBars(c.gui.yax, e.feature_metadata,
                                        feature_color_bars, 1, color_bar_label)} })
                : sb \in {ColorBars(c.gui.xax, e.sample_metadata, sample_color_bars,
                                    0, color_bar_label)} })
            : hm \in {Heatmap(e, c.gui.axes, HeatmapArgs(kwargs))} })
        : c \in {CreatePlotGui(e, g, ResolveDatabases(e, databases))} })

(***************************************************************************)
(* plot_sort                                                               *)
(***************************************************************************)
NewExpInPlace(e, fields) == [obj |-> e, aliased |-> TRUE]

\* heatmap.py:474,480  newexp: a copy when there are fields, else exp itself
NewExp(e, fields) ==
    IF fields.k # "None" THEN [obj |-> Copy(e), aliased |-> FALSE]
    ELSE [obj |-> e, aliased |-> TRUE]

\* heatmap.py:476-477  newexp.sort_samples(cfield, inplace=True), field by field
RECURSIVE SortLoop(_, _, _)
SortLoop(e, fields, k) ==
    IF k > Len(fields) THEN [error |-> NoError, obj |-> e]
    ELSE IF fields[k] \notin DOMAIN e.sample_metadata
    THEN [error |-> Raise("KeyError", fields[k]), obj |-> e]
    ELSE Only({SortLoop(s, fields, k + 1) : s \in {SortSamples(e, fields[k])}})

\* heatmap.py:478-487  the plot of the sorted newexp; `after` is the caller's
\* object as the sorting left it
PlotSorted(sorted, after, fields, flist, sample_color_bars, feature_color_bars, g, databases, color_bar_label, kwargs) ==
    IF sorted.error.type # ""
    THEN [error |-> sorted.error, gui |-> NoGui, log |-> <<>>, exp |-> after]
    ELSE IF fields.k # "None" /\ flist = <<>>
    THEN \* plot_field = cfield, with no field to have assigned cfield
         [error |-> Raise("UnboundLocalError", "cfield"), gui |-> NoGui,
          log |-> <<>>, exp |-> after]
    ELSE LET plot_field == IF fields.k = "None" THEN None ELSE S(flist[Len(flist)])
             kw == IF "sample_field" \in DOMAIN kwargs THEN kwargs
                   ELSE [key \in DOMAIN kwargs \cup {"sample_field"} |->
                            IF key = "sample_field" THEN plot_field ELSE kwargs[key]]
         IN Only({ [error |-> p.error, gui |-> p.gui, log |-> p.log, exp |-> after]
                   : p \in {Plot(sorted.obj, sample_color_bars, feature_color_bars, g,
                                 databases, color_bar_label, kw)} })

\* heatmap.py:436-487  plot_sort(exp, fields, ...): what plot gives, and the
\* caller's object as the call leaves it
PlotSort(e, fields, sample_color_bars, feature_color_bars, g, databases, color_bar_label, kwargs) ==
    LET flist == IF fields.k = "None" THEN <<>> ELSE ToList(fields)
    IN Only({
           Only({ PlotSorted(sorted, IF n.aliased THEN sorted.obj ELSE e, fields, flist,
                             sample_color_bars, feature_color_bars, g, databases,
                             color_bar_label, kwargs)
                  : sorted \in {SortLoop(n.obj, flist, 1)} })
           : n \in {NewExp(e, fields)} })

(***************************************************************************)
(* The state machine: an experiment is loaded, then the functions of the   *)
(* module are called on it, one call at a time.                            *)
(***************************************************************************)
SeqsUpTo(set, n) == UNION {[1..k -> set] : k \in 0..n}

\* the cells of the sequences handed directly to _transition_index
ScanCells == {VInt("1"), VFloat("1"), VStr("1"), VStr("a"), VNone}

\* the cells of the values handed directly to _ax_color_bar
BarCells == {VStr("a"), VStr("b"), VStr("")}

\* the cells of the sample column "group"
GroupCells == {VStr("a"), VStr("b"), VNone}

\* the three features of every experiment
FeatureMetadata ==
    [taxonomy |-> <<VStr("ab"), VStr("ab"), VStr("c")>>,
     level    |-> <<VNone, VStr("x"), VStr("x")>>]

Experiments ==
    { [sample_metadata |-> [group |-> g,
                            day |-> [j \in 1..NSamples |->
                                        IF j % 2 = 1 THEN VInt("2") ELSE VInt("1")]],
       feature_metadata |-> FeatureMetadata,
       data |-> [j \in 1..NSamples |->
                    [f \in 1..Len(FeatureMetadata.taxonomy) |-> 10 * j + f]],
       heatmap_feature_field |-> S("taxonomy"),
       heatmap_databases |-> L(<<"dbbact">>)] : g \in [1..NSamples -> GroupCells] }

GuiArgs == {S("cli"), S("qt5"), S("jupyter"), S("tk"), None}

DbNames == DOMAIN DbAnnotatable

DbLists == {L(names) : names \in SeqsUpTo(DbNames, MaxDbs)}

HeatmapKwargs ==
    [sample_field : {None, S("group"), S("day"), S("batch")},
     feature_field : {False, None, S("taxonomy"), S("genus")},
     yticklabels_max : {None, N(0), N(2)},
     xticklabel_len : {N(XTickLabelLen), N(2)},
     yticklabel_len : {N(YTickLabelLen), N(1)},
     rect : {None, L(<<0, 1, 0, 1>>)},
     transform : {S("log_n"), None}]

NoKwargs == [key \in {} |-> None]

PlotKwargs ==
    {NoKwargs}
    \cup [sample_field : {S("group"), S("batch")}]
    \cup [feature_field : {None, S("genus")}, yticklabels_max : {None, N(0)}]

Init ==
    /\ exp \in Experiments
    /\ pc = "idle"
    /\ call = [op |-> "none"]
    /\ records = <<>>
    /\ error = NoError
    /\ ax = <<>>
    /\ gui = NoGui
    /\ log = <<>>
    /\ readout = ""

\* list(_transition_index(l))
CallTransitionIndex ==
    /\ pc = "idle"
    /\ \E l \in SeqsUpTo(ScanCells, MaxLen) :
          LET r == TransitionIndex(l)
          IN /\ call' = [op |-> "_transition_index", l |-> l]
             /\ records' = r.records
             /\ error' = r.error
    /\ pc' = "done"
    /\ UNCHANGED <<exp, ax, gui, log, readout>>

\* _ax_color_bar(axes, values, width, position, axis=axis, label=label) on
\* fresh axes
CallAxColorBar ==
    /\ pc = "idle"
    /\ \E values \in SeqsUpTo(BarCells, MaxLen), axis \in {0, 1}, label \in BOOLEAN,
          position \in {0, BarSpace + BarWidth} :
          LET r == AxColorBar(<<>>, values, BarWidth, position, axis, label)
          IN /\ call' = [op |-> "_ax_color_bar", values |-> values, axis |-> axis,
                         label |-> label, position |-> position]
             /\ ax' = r.ax
             /\ error' = r.error
    /\ pc' = "done"
    /\ UNCHANGED <<exp, records, gui, log, readout>>

\* _create_plot_gui(exp, gui, databases)
CallCreatePlotGui ==
    /\ pc = "idle"
    /\ \E g \in GuiArgs, databases \in DbLists \cup {None} :
          LET r == CreatePlotGui(exp, g, databases)
          IN /\ call' = [op |-> "_create_plot_gui", gui |-> g, databases |-> databases]
             /\ gui' = r.gui
             /\ log' = r.log
             /\ error' = r.error
    /\ pc' = "done"
    /\ UNCHANGED <<exp, records, ax, readout>>

\* heatmap(exp, **kwargs) on the axes of a new figure
CallHeatmap ==
    /\ pc = "idle"
    /\ \E kwargs \in HeatmapKwargs :
          LET r == Heatmap(exp, <<>>, HeatmapArgs(kwargs))
          IN /\ call' = [op |-> "heatmap", kwargs |-> kwargs]
             /\ ax' = r.ax
             /\ error' = r.error
    /\ pc' = "done"
    /\ UNCHANGED <<exp, records, gui, log, readout>>

\* plot(exp, sample_color_bars, feature_color_bars, gui, databases,
\* color_bar_label, **kwargs)
CallPlot ==
    /\ pc = "idle"
    /\ \E sample_color_bars \in {None, S("group"), L(<<"group", "day">>), S("batch")},
          feature_color_bars \in {None, L(<<"level">>)},
          g \in {S("cli"), S("jupyter"), S("tk"), None},
          databases \in {False, None, L(<<>>), L(<<"redbiom", "dbbact">>)},
          color_bar_label \in BOOLEAN,
          kwargs \in PlotKwargs :
          LET r == Plot(exp, sample_color_bars, feature_color_bars, g, databases,
                        color_bar_label, kwargs)
          IN /\ call' = [op |-> "plot", sample_color_bars |-> sample_color_bars,
                         feature_color_bars |-> feature_color_bars, gui |-> g,
                         databases |-> databases, color_bar_label |-> color_bar_label,
                         kwargs |-> kwargs]
             /\ gui' = r.gui
             /\ log' = r.log
             /\ error' = r.error
    /\ pc' = "done"
    /\ UNCHANGED <<exp, records, ax, readout>>

\* plot_sort(exp, fields, sample_color_bars, None, gui, databases, True, **kwargs)
CallPlotSort ==
    /\ pc = "idle"
    /\ \E fields \in {None, S("day"), S("group"), L(<<"day", "group">>), S("batch"), L(<<>>)},
          sample_color_bars \in {None, S("group")},
          g \in {S("cli"), S("tk")},
          databases \in {False, None},
          kwargs \in {NoKwargs, [sample_field |-> S("group")]} :
          LET r == PlotSort(exp, fields, sample_color_bars, None, g, databases, TRUE,
                            kwargs)
          IN /\ call' = [op |-> "plot_sort", fields |-> fields,
                         sample_color_bars |-> sample_color_bars, gui |-> g,
                         databases |-> databases, kwargs |-> kwargs]
             /\ exp' = r.exp
             /\ gui' = r.gui
             /\ log' = r.log
             /\ error' = r.error
    /\ pc' = "done"
    /\ UNCHANGED <<records, ax, readout>>

\* positions of the mouse along an axis of n cells, in quarter units: left
\* of the first cell (-1.75, -0.75), on its edge (-0.5), inside it (0.25),
\* inside the last cell (n - 0.75) and beyond it (n - 0.25)
HoverCoords(n) == {-7, -3, -2, 1, 4 * n - 3, 4 * n - 1}

\* the positions the mouse is moved to: each position along one axis with
\* the other axis inside the first cell, and the corner before the first cell
HoverPositions(e) ==
    {<<x4, 1>> : x4 \in HoverCoords(Shape(e)[1])}
    \cup {<<1, y4>> : y4 \in HoverCoords(Shape(e)[2])}
    \cup {<<-3, -3>>}

\* the mouse moves over the axes heatmap returned: matplotlib calls
\* ax.format_coord(x, y) (installed at heatmap.py:256) and shows its string
CallFormatCoord ==
    /\ pc = "done"
    /\ error = NoError
    /\ Len(ax) > 0 /\ ax[Len(ax)].op = "format_coord"
    /\ \E pos \in HoverPositions(exp) :
          /\ call' = [op |-> "format_coord", x4 |-> pos[1], y4 |-> pos[2]]
          /\ readout' = FormatCoord(exp, pos[1], pos[2])
    /\ UNCHANGED <<exp, pc, records, error, ax, gui, log>>

\* the caller drops what the call gave and is ready for the next call
Return ==
    /\ pc = "done"
    /\ pc' = "idle"
    /\ call' = [op |-> "none"]
    /\ records' = <<>>
    /\ error' = NoError
    /\ ax' = <<>>
    /\ gui' = NoGui
    /\ log' = <<>>
    /\ readout' = ""
    /\ UNCHANGED exp

Next ==
    \/ CallTransitionIndex
    \/ CallAxColorBar
    \/ CallCreatePlotGui
    \/ CallHeatmap
    \/ CallPlot
    \/ CallPlotSort
    \/ CallFormatCoord
    \/ Return

Spec == Init /\ [][Next]_vars

(***************************************************************************)
(* Properties                                                              *)
(***************************************************************************)
Scanned == pc = "done" /\ call.op = "_transition_index"

\* the end index of the record before record k (0 before the first)
PrevEnd(recs, k) == IF k = 1 THEN 0 ELSE recs[k - 1][1]

\* each record's value repeated by the length of its run
RECURSIVE Expand(_, _)
Expand(recs, k) ==
    IF k > Len(recs) THEN <<>>
    ELSE [j \in 1..(recs[k][1] - PrevEnd(recs, k)) |-> recs[k][2]] \o Expand(recs, k + 1)

\* equality of two cells as the scanner's runs mean it: same type, equal value
SameTypedValue(a, b) == a.tag = b.tag /\ PyEq(a, b)

\* C1: the records of a non-empty sequence partition [0, len(l)): the end
\* indices increase strictly from above 0 to len(l), every element of a run
\* is the run's value, and the values repeated by run length give l back.
C1_RecordsPartition ==
    (Scanned /\ call.l # <<>>) =>
        /\ error = NoError
        /\ Len(records) >= 1
        /\ \A k \in 1..Len(records) : PrevEnd(records, k) < records[k][1]
        /\ records[Len(records)][1] = Len(call.l)
        /\ \A k \in 1..Len(records) :
              \A idx \in PrevEnd(records, k)..(records[k][1] - 1) :
                 idx + 1 <= Len(call.l) /\ call.l[idx + 1] = records[k][2]
        /\ Expand(records, 1) = call.l

\* a sequence with a run of two or more elements and a second run was scanned
C1_Witness ==
    /\ Scanned /\ error = NoError
    /\ Len(records) >= 2
    /\ \E k \in 1..Len(records) : records[k][1] - PrevEnd(records, k) >= 2

\* C2: runs are maximal under type-tagged equality: a record ends between two
\* adjacent elements exactly when they differ in type or in value, so no two
\* consecutive records carry the same typed value; an all-identical sequence
\* gives one record and a sequence of N pairwise different elements gives N.
C2_RunsMaximal ==
    (Scanned /\ call.l # <<>>) =>
        LET l == call.l
            ends == {records[k][1] : k \in 1..Len(records)}
        IN /\ \A p \in 1..(Len(l) - 1) :
                 (p \notin ends) <=> SameTypedValue(l[p], l[p + 1])
           /\ \A k \in 1..(Len(records) - 1) :
                 ~SameTypedValue(records[k][2], records[k + 1][2])
           /\ (\A p, q \in 1..Len(l) : SameTypedValue(l[p], l[q])) => Len(records) = 1
           /\ (\A p, q \in 1..Len(l) : p # q => ~SameTypedValue(l[p], l[q]))
                 => Len(records) = Len(l)

\* 1 and 1.0, equal in Python and of different types, were kept apart, and
\* two equal neighbours were merged
C2_Witness ==
    /\ Scanned /\ error = NoError
    /\ \E p \in 1..(Len(call.l) - 1) :
          /\ PyEq(call.l[p], call.l[p + 1])
          /\ call.l[p].tag # call.l[p + 1].tag
          /\ \E k \in 1..Len(records) : records[k][1] = p
    /\ \E p \in 1..(Len(call.l) - 1) :
          /\ SameTypedValue(call.l[p], call.l[p + 1])
          /\ \A k \in 1..Len(records) : records[k][1] # p

\* C3: consuming the scanner on an empty sequence raises, and no record is
\* yielded; _ax_color_bar, which consumes it, raises too and draws nothing.
C3_EmptyRaises ==
    /\ (Scanned /\ call.l = <<>>) => (error.type # "" /\ records = <<>>)
    /\ (pc = "done" /\ call.op = "_ax_color_bar" /\ call.values = <<>>)
          => (error.type # "" /\ ax = <<>>)

\* the scanner was consumed on the empty sequence
C3_Witness == Scanned /\ call.l = <<>> /\ error.type = "RuntimeError"

\* the rectangles drawn on an axes
Patches(a) == {j \in 1..Len(a) : a[j].op = "add_patch"}

\* the first positions of the maximal runs of values whose value is not ''
NonEmptyRunStarts(values) ==
    {p \in 1..Len(values) :
        /\ values[p].val # ""
        /\ (p = 1 \/ values[p - 1] # values[p])}

\* C4: _ax_color_bar adds one rectangle per maximal run of values whose value
\* is not the empty string and none for a run of empty strings, called
\* directly or by plot for one column of the sample metadata.
C4_OneRectanglePerNonEmptyRun ==
    /\ (pc = "done" /\ call.op = "_ax_color_bar" /\ call.values # <<>>) =>
          /\ error = NoError
          /\ Cardinality(Patches(ax)) = Cardinality(NonEmptyRunStarts(call.values))
    /\ (pc = "done" /\ call.op = "plot" /\ error = NoError
        /\ call.sample_color_bars = S("group")) =>
          Cardinality(Patches(gui.xax))
             = Cardinality(NonEmptyRunStarts(BarValues(exp.sample_metadata.group)))

\* a bar with a run of empty strings and a run that is drawn
C4_Witness ==
    /\ pc = "done" /\ call.op = "_ax_color_bar" /\ error = NoError
    /\ \E p \in 1..Len(call.values) : call.values[p].val = ""
    /\ Cardinality(Patches(ax)) >= 1
    /\ Cardinality(Patches(ax)) < Len(call.values)

\* s occurs in msg
Contains(msg, s) ==
    \E i \in 1..(Len(msg) - Len(s) + 1) : SubSeq(msg, i, i + Len(s) - 1) = s

\* heatmap was called, directly or by a plot that built its controller; its
\* keyword arguments and its axes
HeatmapCalled ==
    /\ pc = "done"
    /\ \/ call.op = "heatmap"
       \/ /\ call.op = "plot"
          /\ GuiKnown(call.gui)
          /\ ResolveDatabases(exp, call.databases).k = "list"
HeatmapKw == HeatmapArgs(call.kwargs)
HeatmapAxes == IF call.op = "heatmap" THEN ax ELSE gui.axes

OpsOn(a) == {a[j].op : j \in 1..Len(a)}
XAxisOps == {"axvline", "set_xlabel", "set_xticks", "set_xticklabels"}
YAxisOps == {"set_ylabel", "set_yticks", "set_yticklabels", "set_major_formatter",
             "set_major_locator"}

\* the feature field heatmap uses: the experiment's default for False
FeatureFieldUsed ==
    IF HeatmapKw.feature_field.k = "False" THEN exp.heatmap_feature_field
    ELSE HeatmapKw.feature_field

UnknownSampleField ==
    HeatmapKw.sample_field.k = "str"
        /\ HeatmapKw.sample_field.v \notin DOMAIN exp.sample_metadata
UnknownFeatureField ==
    FeatureFieldUsed.k = "str" /\ FeatureFieldUsed.v \notin DOMAIN exp.feature_metadata

\* C5: a sample field (feature field) that is no column of the metadata makes
\* heatmap raise an error that names the field, with no gridline, axis label,
\* tick or tick label set for that axis.
C5_MissingFieldRaises ==
    /\ (HeatmapCalled /\ UnknownSampleField) =>
          /\ error.type = "ValueError"
          /\ Contains(error.msg, HeatmapKw.sample_field.v)
          /\ OpsOn(HeatmapAxes) \cap (XAxisOps \cup YAxisOps) = {}
    /\ (HeatmapCalled /\ UnknownFeatureField) =>
          /\ error.type = "ValueError"
          /\ ~UnknownSampleField => Contains(error.msg, FeatureFieldUsed.v)
          /\ OpsOn(HeatmapAxes) \cap YAxisOps = {}

\* heatmap was asked for a sample field the metadata does not have
C5_Witness ==
    /\ HeatmapCalled /\ call.op = "heatmap" /\ UnknownSampleField
    /\ error.msg = "Sample field 'batch' not in sample metadata"
    /\ "imshow" \in OpsOn(ax)

\* the drawing calls of kind op on an axes, in order
CallsOf(a, op) == SelectSeq(a, LAMBDA c : c.op = op)

C7_PlotSortKeepsExp == [][call'.op = "plot_sort" => exp' = exp]_vars

\* plot_sort plotted samples in another order than the caller's object has
C7_Witness ==
    /\ pc = "done" /\ call.op = "plot_sort" /\ error = NoError
    /\ call.fields.k = "list" /\ Len(call.fields.v) = 2
    /\ SortLoop(exp, call.fields.v, 1).obj # exp
    /\ gui.activated

\* the first annotation-capable handle among the handles of names, or <<>>
RECURSIVE FirstAnnotatable(_, _)
FirstAnnotatable(names, k) ==
    IF k > Len(names) THEN <<>>
    ELSE IF DbAnnotatable[names[k]] THEN <<GetDatabaseClass(names[k])>>
    ELSE FirstAnnotatable(names, k + 1)

\* C8: _create_plot_gui appends every database to the controller's list, in
\* order; the annotation database is the first annotation-capable one of the
\* list (none when there is none), and two or more of them raise nothing.
C8_FirstAnnotatableWins ==
    (pc = "done" /\ call.op = "_create_plot_gui" /\ GuiKnown(call.gui)
     /\ call.databases.k = "list") =>
        LET names == call.databases.v
        IN /\ error = NoError
           /\ gui.databases = [j \in 1..Len(names) |-> GetDatabaseClass(names[j])]
           /\ gui.annotation_db = FirstAnnotatable(names, 1)

\* two different annotation-capable databases were attached
C8_Witness ==
    /\ pc = "done" /\ call.op = "_create_plot_gui" /\ error = NoError
    /\ call.databases.k = "list" /\ Len(call.databases.v) >= 2
    /\ \E i, j \in 1..Len(gui.databases) :
          /\ i < j
          /\ gui.databases[i].annotatable /\ gui.databases[j].annotatable
          /\ gui.databases[i] # gui.databases[j]
          /\ gui.annotation_db = <<gui.databases[i]>>
    /\ log # <<>>

\* C9: plot with databases=None builds the controller with no database and no
\* annotation database, renders and returns the activated controller.
C9_NoneMeansNoDatabases ==
    (pc = "done" /\ call.op = "plot" /\ call.databases.k = "None"
     /\ GuiKnown(call.gui) /\ DOMAIN call.kwargs = {}
     /\ call.sample_color_bars.k = "None" /\ call.feature_color_bars.k = "None") =>
        /\ error = NoError
        /\ gui.constructed /\ gui.databases = <<>> /\ gui.annotation_db = <<>>
        /\ "imshow" \in OpsOn(gui.axes)
        /\ gui.activated

Hovered == pc = "done" /\ call.op = "format_coord"

\* the index of the cell nearest to a position in quarter units (a position
\* halfway between two cells goes to the higher one)
NearestCell(q4) == (q4 + 2) \div 4

\* C11: the hover readout rounds (x, y) to the nearest (sample, feature) cell
\* and reports that cell's raw matrix value exactly when the cell is inside
\* the matrix; for a position whose nearest cell is outside, such as x or y
\* below -0.5, it reports the coordinates only.
C11_HoverReadsNearestCell ==
    Hovered =>
        LET sample == NearestCell(call.x4)
            feature == NearestCell(call.y4)
            coords == "x=" \o Fmt2(call.x4) \o ", y=" \o Fmt2(call.y4)
        IN IF 0 <= sample /\ sample < Shape(exp)[1]
              /\ 0 <= feature /\ feature < Shape(exp)[2]
           THEN readout = coords \o ", z=" \o Digits(exp.data[sample + 1][feature + 1])
                                 \o ".00"
           ELSE readout = coords

\* a color bar was drawn by a direct call of _ax_color_bar
BarDrawn == pc = "done" /\ call.op = "_ax_color_bar" /\ error = NoError

\* the last position (1-based) of the maximal run of values that starts at p
RunLast(values, p) ==
    CHOOSE q \in p..Len(values) :
        /\ \A j \in p..q : values[j] = values[p]
        /\ (q = Len(values) \/ values[q + 1] # values[p])

\* a rectangle's extent <<start, length>> along the bar (half units) and
\* across it (hundredths)
AlongBar(r) == IF r.axis = 0 THEN <<r.xy[1], r.w>> ELSE <<r.xy[2], r.h>>
AcrossBar(r) == IF r.axis = 0 THEN <<r.xy[2], r.h>> ELSE <<r.xy[1], r.w>>

\* cell c (0-based), which lies from c - 0.5 to c + 0.5, is inside rectangle r
CoversCell(r, c) ==
    AlongBar(r)[1] <= 2 * c - 1 /\ 2 * c + 1 <= AlongBar(r)[1] + AlongBar(r)[2]

\* the inside of cell c meets the inside of rectangle r
TouchesCell(r, c) ==
    AlongBar(r)[1] < 2 * c + 1 /\ 2 * c - 1 < AlongBar(r)[1] + AlongBar(r)[2]

\* C12: the rectangle of a non-empty run that starts at cell prev (0 for the
\* first run, the end index of the run before it otherwise, drawn or not) and
\* has end index i spans prev - 0.5 to i - 0.5 along the bar and position to
\* position + width across it, x and y as axis says; so the rectangles, in
\* the order of the runs, do not overlap and each covers exactly the cells
\* of its run.
C12_RectangleSpansRun ==
    BarDrawn =>
        LET values == call.values
            starts == NonEmptyRunStarts(values)
            rects == SelectSeq(ax, LAMBDA d : d.op = "add_patch")
            \* the start of the k-th non-empty run
            StartOf(k) == CHOOSE p \in starts :
                              Cardinality({s \in starts : s < p}) = k - 1
        IN /\ Len(rects) = Cardinality(starts)
           /\ \A k \in 1..Len(rects) :
                 LET prev == StartOf(k) - 1
                     i == RunLast(values, StartOf(k))
                     r == rects[k]
                 IN /\ r.axis = call.axis
                    /\ r.label = values[StartOf(k)].val
                    /\ AlongBar(r) = <<2 * prev - 1, 2 * (i - prev)>>
                    /\ AcrossBar(r) = <<call.position, BarWidth>>
                    /\ r.xy = (IF call.axis = 0 THEN <<2 * prev - 1, call.position>>
                                ELSE <<call.position, 2 * prev - 1>>)
                    /\ \A c \in 0..(Len(values) - 1) :
                          /\ CoversCell(r, c) <=> (prev <= c /\ c < i)
                          /\ TouchesCell(r, c) => CoversCell(r, c)
           /\ \A j, k \in 1..Len(rects) :
                 j < k => AlongBar(rects[j])[1] + AlongBar(rects[j])[2]
                             <= AlongBar(rects[k])[1]

\* a bar on either axis whose drawn run comes after a skipped run of empty
\* strings, and a bar with two drawn runs
C12_Witness ==
    /\ BarDrawn
    /\ \E j \in 1..Len(ax) :
          /\ ax[j].op = "add_patch"
          /\ AlongBar(ax[j])[1] > -1
          /\ call.values[(AlongBar(ax[j])[1] + 1) \div 2].val = ""
    /\ Cardinality(Patches(ax)) >= 2
    /\ call.axis = 1 /\ call.position > 0

====
